---- MODULE Spec2Model ----
(***************************************************************************)
(* Model of src/main.ts: RemarkableScreenshotPlugin.                       *)
(* One screenshot request (handleScreenshotRequest -> checkDevice-          *)
(* Reachability -> insertScreenshot -> captureScreenshot) running against  *)
(* the shared settings object, which the settings tab mutates              *)
(* concurrently.  Every action is one JavaScript macrotask: a handler      *)
(* together with the promise reactions (microtasks) it triggers.           *)
(***************************************************************************)
EXTENDS Integers, Sequences, FiniteSets, TLC

(***************************************************************************)
(* Bounds                                                                  *)
(***************************************************************************)
\* number of 'error' events one child process may emit
MaxErrors == 1

\* number of dot-separated pieces of the address strings tried on
\* isValidIPAddress
MaxParts == 5

(***************************************************************************)
(* Strings are sequences of one-character strings.                         *)
(***************************************************************************)
DigitChars == <<"0", "1", "2", "3", "4", "5", "6", "7", "8", "9">>

Digits == {DigitChars[i] : i \in 1..10}

IsDigit(c) == c \in Digits

DigitVal(c) == (CHOOSE i \in 1..10 : DigitChars[i] = c) - 1

IsSpace(c) == c = " "

\* String.prototype.trim: drop leading and trailing whitespace
RECURSIVE TrimStart(_)
TrimStart(s) ==
    IF s = <<>> THEN <<>>
    ELSE IF IsSpace(Head(s)) THEN TrimStart(Tail(s))
    ELSE s

RECURSIVE TrimEnd(_)
TrimEnd(s) ==
    IF s = <<>> THEN <<>>
    ELSE IF IsSpace(s[Len(s)]) THEN TrimEnd(SubSeq(s, 1, Len(s) - 1))
    ELSE s

Trim(s) == TrimEnd(TrimStart(s))

\* String.prototype.split('.'): the pieces between the dots, empty ones kept
RECURSIVE SplitDots(_, _, _)
SplitDots(s, cur, acc) ==
    IF s = <<>> THEN Append(acc, cur)
    ELSE IF Head(s) = "." THEN SplitDots(Tail(s), <<>>, Append(acc, cur))
    ELSE SplitDots(Tail(s), Append(cur, Head(s)), acc)

Split(s) == SplitDots(s, <<>>, <<>>)

\* parseInt(str, 10): value of the leading run of digits, NaN when there is none
NaN == -1

RECURSIVE ParseDigits(_, _, _)
ParseDigits(s, acc, seen) ==
    IF s = <<>> \/ ~IsDigit(Head(s))
    THEN (IF seen THEN acc ELSE NaN)
    ELSE ParseDigits(Tail(s), acc * 10 + DigitVal(Head(s)), TRUE)

ParseInt(s) == ParseDigits(TrimStart(s), 0, FALSE)

\* /^(\d{1,3}\.){3}\d{1,3}$/ : three groups of 1..3 digits each followed by a
\* dot, then a last group of 1..3 digits, and nothing else
RECURSIVE MatchGroups(_, _, _)
MatchGroups(s, groupsLeft, digitsInGroup) ==
    IF s = <<>> THEN groupsLeft = 1 /\ digitsInGroup \in 1..3
    ELSE IF IsDigit(Head(s))
         THEN digitsInGroup < 3 /\ MatchGroups(Tail(s), groupsLeft, digitsInGroup + 1)
    ELSE IF Head(s) = "."
         THEN groupsLeft > 1 /\ digitsInGroup \in 1..3
              /\ MatchGroups(Tail(s), groupsLeft - 1, 0)
    ELSE FALSE

IpRegexTest(ip) == MatchGroups(ip, 4, 0)

OctetNotNegative(octet) ==
    LET num == ParseInt(octet) IN num # NaN /\ num >= 0

OctetInRange(octet) ==
    LET num == ParseInt(octet) IN num # NaN /\ num >= 0 /\ num <= 255

isValidIPAddress(ip) ==
    IF ~IpRegexTest(ip) THEN FALSE
    ELSE LET octets == Split(ip) IN
         \A i \in 1..Len(octets) : OctetInRange(octets[i])

(***************************************************************************)
(* Values typed into the settings form, and the defaults.                  *)
(***************************************************************************)
DefaultHost == <<"1", "0", ".", "1", "1", ".", "9", "9", ".", "1">>

DefaultFolder == <<"a", "t", "t", "a", "c", "h", "m", "e", "n", "t", "s">>

HostInputs ==
    { <<" ", "1", "0", ".", "1", "1", ".", "9", "9", ".", "1", " ">>,
      <<"1", "0", ".", "1", "1", ".", "9", "9", ".", "9", "9", "9", " ">> }

FolderInputs == { <<"s", "h", "o", "t", "s", " ">>, <<" ">> }

(***************************************************************************)
(* The three child processes of one capture, in spawn order.               *)
(***************************************************************************)
Stages == {"ssh", "head", "convert"}

\* exit codes handed to 'close'/'exit': 0, a non-zero code, null (signal)
NullCode == -1

NoCode == -2

ExitCodes == {0, 1, NullCode}

\* what ChildProcess.kill() can do: deliver the signal (killed becomes true),
\* or fail (the process is gone and kill() returns false, or kill() throws);
\* both failures leave the ChildProcess object as it was
KillOutcomes == {"ok", "throw"}

NoProcess == [spawned |-> FALSE, killed |-> FALSE, killInvoked |-> FALSE, errors |-> 0]

spawn == [spawned |-> TRUE, killed |-> FALSE, killInvoked |-> FALSE, errors |-> 0]

\* ChildProcess.kill(): killInvoked records that the call was made, killed
\* is the flag Node sets when the signal was delivered
kill(p, outcome) ==
    [p EXCEPT !.killInvoked = TRUE,
              !.killed = (@ \/ outcome = "ok")]

cleanupOneInverted(p, outcome) ==
    IF p.spawned /\ p.killed THEN kill(p, outcome) ELSE p

\* the body of the forEach callback of cleanupProcesses; a throw of kill()
\* is caught and logged
cleanupOne(p, outcome) ==
    IF p.spawned /\ ~p.killed THEN kill(p, outcome) ELSE p

RECURSIVE cleanupProcessesStopsOnThrow(_, _, _)
cleanupProcessesStopsOnThrow(list, procs, ko) ==
    IF list = <<>> THEN procs
    ELSE LET s == Head(list)
             signalled == [procs EXCEPT ![s] = cleanupOne(procs[s], ko[s])]
         IN IF signalled[s] # procs[s] /\ ko[s] = "throw"
            THEN signalled
            ELSE cleanupProcessesStopsOnThrow(Tail(list), signalled, ko)

RECURSIVE cleanupProcesses(_, _, _)
cleanupProcesses(list, procs, ko) ==
    IF list = <<>> THEN procs
    ELSE LET s == Head(list) IN
         cleanupProcesses(Tail(list),
                          [procs EXCEPT ![s] = cleanupOne(procs[s], ko[s])],
                          ko)

KillChoices == [Stages -> KillOutcomes]

KillInvoked(procs) == {s \in Stages : procs[s].killInvoked}

(***************************************************************************)
(* The promise returned by captureScreenshot and its single then/catch     *)
(* reaction registered by insertScreenshot.                                *)
(***************************************************************************)
NoString == <<>>

NoResult == [kind |-> "none", code |-> NoCode, folder |-> NoString]

PathResult(folder) == [kind |-> "path", code |-> NoCode, folder |-> folder]

ErrorResult(kind, code) == [kind |-> kind, code |-> code, folder |-> NoString]

PendingPromise ==
    [state |-> "pending", value |-> NoResult, reactions |-> 0,
     killsAtSettle |-> {}]

SettleAgain(pr, state, value, procs) ==
    [state |-> state, value |-> value, reactions |-> pr.reactions + 1,
     killsAtSettle |-> KillInvoked(procs)]

\* resolve/reject of `new Promise`: the first call settles the promise and
\* queues the reaction, every later call is ignored.  killsAtSettle records
\* on which stages kill() had been invoked when the promise was settled.
Settle(pr, state, value, procs) ==
    IF pr.state = "pending"
    THEN [state |-> state, value |-> value, reactions |-> pr.reactions + 1,
          killsAtSettle |-> KillInvoked(procs)]
    ELSE pr

resolve(pr, value, procs) == Settle(pr, "fulfilled", value, procs)

reject(pr, value, procs) == Settle(pr, "rejected", value, procs)

ReactionNoticesNoCatch(pr, pr2, editor) ==
    IF pr2.reactions = pr.reactions THEN <<>>
    ELSE IF pr2.state = "fulfilled"
         THEN (IF editor THEN <<"inserted">> ELSE <<"noEditor">>)
    ELSE <<>>

\* the notices the then/catch callbacks of insertScreenshot raise when the
\* step from pr to pr2 ran the reaction
ReactionNotices(pr, pr2, editor) ==
    IF pr2.reactions = pr.reactions THEN <<>>
    ELSE IF pr2.state = "fulfilled"
         THEN (IF editor THEN <<"inserted">> ELSE <<"noEditor">>)
    ELSE <<"failed">>

\* the four ends of the two pipes ssh -> head -> convert
PipeEndpoints == {"ssh.stdout", "head.stdin", "head.stdout", "convert.stdin"}

NoCall == [fn |-> "none"]

VARIABLES
    settings,           \* this.settings: sshHost, imageFolder
    phase,              \* position of the request
    checkedHost,        \* the address that handleScreenshotRequest validated and probed
    probeCalls,         \* number of ping commands executed
    probeResult,        \* "none", "reachable", "unreachable"
    notices,            \* the Notice objects shown, in order
    captureCalls,       \* number of captureScreenshot invocations
    dirCheck,           \* "none", "exists" (existsSync true), "created", "failed" (mkdirSync threw)
    mkdirCalls,         \* number of fs.mkdirSync calls
    processes,          \* the processes array of captureScreenshot
    proc,               \* per stage: spawned, killed flag, kill() invoked, 'error' events
    sshArgsHost,        \* the host placed in sshArgs when ssh was spawned
    outputFolder,       \* the imageFolder used to build outputPath
    pipelineCompleted,  \* the flag of captureScreenshot
    timer,              \* "unarmed", "armed", "fired"
    promise,            \* the promise returned by captureScreenshot
    headClosed,         \* head emitted 'close'
    convertCode,        \* exit code of convert's 'close', NoCode before
    sshFailed,          \* ssh ended with a non-zero exit code: no session
    pipeOutcome,        \* per pipe endpoint: what became of its 'error' event
    call,               \* a call of one of the plugin's functions on its own
    ret                 \* <<>> before that call returned, <<value>> after

vars == <<settings, phase, checkedHost, probeCalls, probeResult, notices,
          captureCalls, dirCheck, mkdirCalls, processes, proc, sshArgsHost,
          outputFolder, pipelineCompleted, timer, promise,
          headClosed, convertCode, sshFailed, pipeOutcome, call, ret>>

auxVars == <<pipeOutcome, call, ret>>

requestVars == <<phase, checkedHost, probeCalls, probeResult>>

captureVars == <<captureCalls, dirCheck, mkdirCalls, processes, sshArgsHost,
                 outputFolder, timer>>

eventVars == <<headClosed, convertCode, sshFailed>>

\* no request has been made
IdleRequest ==
    /\ phase = "idle"
    /\ checkedHost = NoString
    /\ probeCalls = 0
    /\ probeResult = "none"
    /\ notices = <<>>
    /\ captureCalls = 0
    /\ dirCheck = "none"
    /\ mkdirCalls = 0
    /\ processes = <<>>
    /\ proc = [s \in Stages |-> NoProcess]
    /\ sshArgsHost = NoString
    /\ outputFolder = NoString
    /\ pipelineCompleted = FALSE
    /\ timer = "unarmed"
    /\ promise = PendingPromise
    /\ headClosed = FALSE
    /\ convertCode = NoCode
    /\ sshFailed = FALSE
    /\ pipeOutcome = [e \in PipeEndpoints |-> "none"]

\* loadSettings: the defaults overlaid with whatever was saved
Init ==
    /\ settings \in [sshHost : {DefaultHost} \cup {Trim(h) : h \in HostInputs},
                     imageFolder : {DefaultFolder}]
    /\ IdleRequest
    /\ call = NoCall
    /\ ret = <<>>

(***************************************************************************)
(* Settings tab: the onChange handlers of the text fields.                 *)
(***************************************************************************)
\* An edit of a field is followed from the start of the request up to the
\* last read of that field by the request: sshHost is last read when ssh is
\* spawned, imageFolder when convert closes.
SetSshHost ==
    \E value \in HostInputs :
        /\ phase \in {"idle", "probing"}
        /\ settings' = [settings EXCEPT !.sshHost = Trim(value)]
        /\ UNCHANGED <<auxVars, requestVars, captureVars, eventVars, notices, proc,
                       pipelineCompleted, promise>>

SetImageFolder ==
    \E value \in FolderInputs :
        /\ phase \in {"idle", "probing", "capturing"}
        /\ promise.state = "pending"
        /\ convertCode = NoCode
        /\ settings' = [settings EXCEPT !.imageFolder =
                            IF Trim(value) # <<>> THEN Trim(value) ELSE DefaultFolder]
        /\ UNCHANGED <<auxVars, requestVars, captureVars, eventVars, notices, proc,
                       pipelineCompleted, promise>>

(***************************************************************************)
(* handleScreenshotRequest: validate the address, then start the probe.    *)
(***************************************************************************)
handleScreenshotRequestUnchecked ==
    /\ phase = "idle"
    /\ checkedHost' = settings.sshHost
    /\ probeCalls' = probeCalls + 1
    /\ phase' = "probing"
    /\ UNCHANGED <<auxVars, settings, notices, probeResult, captureVars, eventVars, proc,
                   pipelineCompleted, promise>>

handleScreenshotRequest ==
    /\ phase = "idle"
    /\ checkedHost' = settings.sshHost
    /\ IF ~isValidIPAddress(settings.sshHost)
       THEN /\ notices' = Append(notices, "invalidAddress")
            /\ phase' = "finished"
            /\ UNCHANGED probeCalls
       ELSE \* checkDeviceReachability: exec(pingCmd, ...)
            /\ probeCalls' = probeCalls + 1
            /\ phase' = "probing"
            /\ UNCHANGED notices
    /\ UNCHANGED <<auxVars, settings, probeResult, captureVars, eventVars, proc,
                   pipelineCompleted, promise>>

ProbeErrorRejects ==
    /\ phase = "probing"
    /\ probeResult' = "unreachable"
    /\ notices' = Append(notices, "checkFailed")
    /\ phase' = "finished"
    /\ UNCHANGED <<auxVars, settings, checkedHost, probeCalls, captureVars, eventVars,
                   proc, pipelineCompleted, promise>>

\* the exec callback resolves with !error; the then callback finds the
\* device unreachable
ProbeUnreachable ==
    /\ phase = "probing"
    /\ probeResult' = "unreachable"
    /\ notices' = Append(notices, "unreachable")
    /\ phase' = "finished"
    /\ UNCHANGED <<auxVars, settings, checkedHost, probeCalls, captureVars, eventVars,
                   proc, pipelineCompleted, promise>>

\* reachable, insertScreenshot finds that the vault adapter is not a
\* FileSystemAdapter
ProbeReachableNoLocalVault ==
    /\ phase = "probing"
    /\ probeResult' = "reachable"
    /\ notices' = Append(notices, "localVaultOnly")
    /\ phase' = "finished"
    /\ UNCHANGED <<auxVars, settings, checkedHost, probeCalls, captureVars, eventVars,
                   proc, pipelineCompleted, promise>>

CaptureMkdirFailsNoReturn ==
    /\ phase = "probing"
    /\ probeResult' = "reachable"
    /\ phase' = "capturing"
    /\ captureCalls' = captureCalls + 1
    /\ outputFolder' = settings.imageFolder
    /\ dirCheck' = "failed"
    /\ mkdirCalls' = mkdirCalls + 1
    /\ LET pr2 == reject(promise, ErrorResult("dirError", NoCode), proc) IN
        /\ promise' = pr2
        /\ notices' = notices \o <<"capturing">> \o ReactionNotices(promise, pr2, FALSE)
    /\ sshArgsHost' = settings.sshHost
    /\ proc' = [s \in Stages |-> spawn]
    /\ processes' = <<"ssh", "head", "convert">>
    /\ timer' = "armed"
    /\ UNCHANGED <<auxVars, settings, checkedHost, probeCalls, eventVars, pipelineCompleted>>

\* reachable, insertScreenshot calls captureScreenshot, the directory is
\* missing and mkdirSync throws
CaptureMkdirFails ==
    /\ phase = "probing"
    /\ probeResult' = "reachable"
    /\ phase' = "capturing"
    /\ captureCalls' = captureCalls + 1
    /\ outputFolder' = settings.imageFolder
    /\ dirCheck' = "failed"
    /\ mkdirCalls' = mkdirCalls + 1
    /\ LET pr2 == reject(promise, ErrorResult("dirError", NoCode), proc) IN
        /\ promise' = pr2
        /\ notices' = notices \o <<"capturing">> \o ReactionNotices(promise, pr2, FALSE)
    /\ UNCHANGED <<auxVars, settings, checkedHost, probeCalls, processes, sshArgsHost,
                   timer, eventVars, proc, pipelineCompleted>>

\* reachable, captureScreenshot finds or creates the directory, spawns
\* ssh, head and convert, registers the handlers and arms the timer
CaptureStart ==
    /\ phase = "probing"
    /\ probeResult' = "reachable"
    /\ phase' = "capturing"
    /\ captureCalls' = captureCalls + 1
    /\ outputFolder' = settings.imageFolder
    /\ \E exists \in BOOLEAN :
        /\ dirCheck' = IF exists THEN "exists" ELSE "created"
        /\ mkdirCalls' = IF exists THEN mkdirCalls ELSE mkdirCalls + 1
    /\ sshArgsHost' = settings.sshHost
    /\ proc' = [s \in Stages |-> spawn]
    /\ processes' = <<"ssh", "head", "convert">>
    /\ timer' = "armed"
    /\ notices' = Append(notices, "capturing")
    /\ UNCHANGED <<auxVars, settings, checkedHost, probeCalls, eventVars,
                   pipelineCompleted, promise>>

(***************************************************************************)
(* Event handlers registered by captureScreenshot.                         *)
(***************************************************************************)
ErrorKind(s) ==
    CASE s = "ssh" -> "sshError"
      [] s = "head" -> "headError"
      [] s = "convert" -> "convertError"

\* ssh.on('error'), head.on('error'), convert.on('error')
StageError(s) ==
    /\ proc[s].spawned
    /\ proc[s].errors < MaxErrors
    /\ LET emitted == [proc EXCEPT ![s].errors = @ + 1] IN
       IF ~pipelineCompleted
       THEN \E ko \in KillChoices :
              LET cleaned == cleanupProcesses(processes, emitted, ko)
                  pr2 == reject(promise, ErrorResult(ErrorKind(s), NoCode), cleaned)
              IN /\ proc' = cleaned
                 /\ promise' = pr2
                 /\ notices' = notices \o ReactionNotices(promise, pr2, FALSE)
       ELSE /\ proc' = emitted
            /\ UNCHANGED <<promise, notices>>
    /\ UNCHANGED <<auxVars, settings, requestVars, captureVars, eventVars, pipelineCompleted>>

SshError == StageError("ssh")

HeadError == StageError("head")

ConvertError == StageError("convert")

HeadCloseNoKill ==
    /\ proc["head"].spawned
    /\ ~headClosed
    /\ headClosed' = TRUE
    /\ UNCHANGED <<auxVars, settings, requestVars, captureVars, notices, convertCode,
                   sshFailed, proc, pipelineCompleted, promise>>

\* head.on('close'): kill ssh unless its killed flag is set; a throw of
\* kill() here is not caught by the handler
HeadClose ==
    /\ proc["head"].spawned
    /\ ~headClosed
    /\ headClosed' = TRUE
    /\ IF ~proc["ssh"].killed
       THEN \E outcome \in KillOutcomes :
              proc' = [proc EXCEPT !["ssh"] = kill(@, outcome)]
       ELSE UNCHANGED proc
    /\ UNCHANGED <<auxVars, settings, requestVars, captureVars, notices, convertCode,
                   sshFailed, pipelineCompleted, promise>>

ConvertCloseIgnoresCode ==
    /\ proc["convert"].spawned
    /\ convertCode = NoCode
    /\ \E code \in ExitCodes :
        /\ convertCode' = code
        /\ pipelineCompleted' = TRUE
        /\ \E ko \in KillChoices :
             LET cleaned == cleanupProcesses(processes, proc, ko)
                 pr2 == resolve(promise, PathResult(settings.imageFolder), cleaned)
             IN /\ proc' = cleaned
                /\ promise' = pr2
                /\ \E editor \in BOOLEAN :
                     notices' = notices \o ReactionNotices(promise, pr2, editor)
    /\ UNCHANGED <<auxVars, settings, requestVars, captureVars, headClosed, sshFailed>>

\* convert.on('close', code)
ConvertClose ==
    /\ proc["convert"].spawned
    /\ convertCode = NoCode
    /\ \E code \in ExitCodes :
        /\ convertCode' = code
        /\ pipelineCompleted' = TRUE
        /\ \E ko \in KillChoices :
             LET cleaned == cleanupProcesses(processes, proc, ko)
                 pr2 == IF code = 0
                        THEN resolve(promise, PathResult(settings.imageFolder), cleaned)
                        ELSE reject(promise, ErrorResult("convertExit", code), cleaned)
             IN /\ proc' = cleaned
                /\ promise' = pr2
                /\ \E editor \in (IF pr2.state = "fulfilled" THEN BOOLEAN ELSE {FALSE}) :
                     notices' = notices \o ReactionNotices(promise, pr2, editor)
    /\ UNCHANGED <<auxVars, settings, requestVars, captureVars, headClosed, sshFailed>>

TimeoutNoReject ==
    /\ timer = "armed"
    /\ timer' = "fired"
    /\ IF ~pipelineCompleted
       THEN \E ko \in KillChoices :
              /\ proc' = cleanupProcesses(processes, proc, ko)
              /\ UNCHANGED <<promise, notices>>
       ELSE UNCHANGED <<proc, promise, notices>>
    /\ UNCHANGED <<auxVars, settings, requestVars, captureCalls, dirCheck, mkdirCalls,
                   processes, sshArgsHost, outputFolder, eventVars,
                   pipelineCompleted>>

TimeoutNoCleanup ==
    /\ timer = "armed"
    /\ timer' = "fired"
    /\ IF ~pipelineCompleted
       THEN LET pr2 == reject(promise, ErrorResult("timeout", NoCode), proc) IN
              /\ promise' = pr2
              /\ notices' = notices \o ReactionNotices(promise, pr2, FALSE)
              /\ UNCHANGED proc
       ELSE UNCHANGED <<proc, promise, notices>>
    /\ UNCHANGED <<auxVars, settings, requestVars, captureCalls, dirCheck, mkdirCalls,
                   processes, sshArgsHost, outputFolder, eventVars,
                   pipelineCompleted>>

\* the setTimeout callback
Timeout ==
    /\ timer = "armed"
    /\ timer' = "fired"
    /\ IF ~pipelineCompleted
       THEN \E ko \in KillChoices :
              LET cleaned == cleanupProcesses(processes, proc, ko)
                  pr2 == reject(promise, ErrorResult("timeout", NoCode), cleaned)
              IN /\ proc' = cleaned
                 /\ promise' = pr2
                 /\ notices' = notices \o ReactionNotices(promise, pr2, FALSE)
       ELSE UNCHANGED <<proc, promise, notices>>
    /\ UNCHANGED <<auxVars, settings, requestVars, captureCalls, dirCheck, mkdirCalls,
                   processes, sshArgsHost, outputFolder, eventVars,
                   pipelineCompleted>>

\* the ssh process starts, fails to establish the session (authentication
\* refused, host unreachable, remote command not found) and exits with a
\* non-zero code; no 'error' event is emitted for a process that was spawned,
\* and captureScreenshot registers no 'exit' or 'close' handler on ssh
SshExit ==
    /\ proc["ssh"].spawned
    /\ proc["ssh"].errors = 0
    /\ ~sshFailed
    /\ sshFailed' = TRUE
    /\ UNCHANGED <<auxVars, settings, requestVars, captureVars, notices, headClosed,
                   convertCode, proc, pipelineCompleted, promise>>

(***************************************************************************)
(* 'error' events of the streams that make up the two pipes.               *)
(***************************************************************************)
PipeErrorCodes == {"EPIPE", "ECONNRESET"}

\* the streams captureScreenshot registers an 'error' listener on
ErrorListeners == {"ssh.stdout", "head.stdin"}

\* what an 'error' event with this code does on this stream: the listener
\* drops EPIPE and logs any other code; a stream without a listener has the
\* event thrown as an uncaught exception
StreamError(endpoint, code) ==
    IF endpoint \in ErrorListeners
    THEN (IF code # "EPIPE" THEN "logged" ELSE "suppressed")
    ELSE "uncaught"

PipeError ==
    \E endpoint \in PipeEndpoints, code \in PipeErrorCodes :
        /\ processes # <<>>
        /\ pipeOutcome[endpoint] = "none"
        /\ pipeOutcome' = [pipeOutcome EXCEPT ![endpoint] = StreamError(endpoint, code)]
        /\ UNCHANGED <<settings, requestVars, captureVars, eventVars, notices,
                       proc, pipelineCompleted, promise, call, ret>>

PipeNext ==
    \/ handleScreenshotRequest
    \/ CaptureStart
    \/ HeadClose
    \/ ConvertClose
    \/ Timeout
    \/ PipeError

\* one capture whose pipes report errors; the settings are not edited and
\* every stage launches
PipeSpec == Init /\ [][PipeNext]_vars

(***************************************************************************)
(* The plugin's functions called on their own, one call per behaviour.     *)
(***************************************************************************)
\* the pieces the tried address strings are put together from
OctetInputs ==
    { <<"1">>, <<"1", "0">>, <<"2", "5", "5">>, <<"2", "5", "6">>,
      <<"9", "9", "9">>, <<"0", "0", "0", "0">>, <<"a", "b", "c">>, <<>> }

RECURSIVE JoinDots(_)
JoinDots(parts) ==
    IF Len(parts) = 0 THEN <<>>
    ELSE IF Len(parts) = 1 THEN parts[1]
    ELSE parts[1] \o <<".">> \o JoinDots(Tail(parts))

IpInputs ==
    {JoinDots(parts) : parts \in UNION {[1..n -> OctetInputs] : n \in 1..MaxParts}}
        \cup {DefaultHost}

(* captureScreenshot: how ssh, head and convert are launched *)
Truthy(str) == str # <<>>

ArgDashE == <<"-", "e">>

ArgSsh == <<"s", "s", "h">>

ArgRootAt == <<"r", "o", "o", "t", "@">>

ArgCatFb0 == <<"c", "a", "t", " ", "/", "d", "e", "v", "/", "f", "b", "0">>

sshArgsPasswordOption(password, host) ==
    IF Truthy(password)
    THEN <<<<"-", "p">>, password, ArgSsh, ArgRootAt \o host, ArgCatFb0>>
    ELSE <<ArgSsh, ArgRootAt \o host, ArgCatFb0>>

sshArgs(password, host) ==
    IF Truthy(password)
    THEN <<ArgDashE, ArgSsh, ArgRootAt \o host, ArgCatFb0>>
    ELSE <<ArgSsh, ArgRootAt \o host, ArgCatFb0>>

sshCommand(password) == IF Truthy(password) THEN "sshpass" ELSE "ssh"

\* { ...process.env, SSHPASS: password }
sshEnv(password, processEnv) ==
    IF Truthy(password)
    THEN [name \in DOMAIN processEnv \cup {"SSHPASS"} |->
             IF name = "SSHPASS" THEN password ELSE processEnv[name]]
    ELSE processEnv

headArgsVisibleFrame == <<<<"-", "c">>, <<"5", "2", "5", "6", "5", "7", "6">>>>

headArgs == <<<<"-", "c">>, <<"5", "2", "7", "1", "5", "5", "2">>>>

convertArgs(outputPath) ==
    << <<"-", "s", "i", "z", "e">>, <<"1", "4", "0", "8", "x", "1", "8", "7", "2">>,
       <<"-", "d", "e", "p", "t", "h">>, <<"1", "6">>,
       <<"g", "r", "a", "y", ":", "-">>,
       <<"-", "c", "r", "o", "p">>, <<"1", "4", "0", "4", "x", "1", "8", "7", "2", "+", "0", "+", "0">>,
       <<"+", "r", "e", "p", "a", "g", "e">>,
       outputPath >>

PasswordInputs == {<<>>, <<"p", "w">>, <<"0">>, <<" ">>}

ProcessEnvInputs ==
    { [PATH |-> <<"/", "b", "i", "n">>],
      [PATH |-> <<"/", "b", "i", "n">>, SSHPASS |-> <<"o", "l", "d">>] }

\* the argument lists of processes as pushed one after the other
ProcessLists == {<<>>, <<"ssh">>, <<"ssh", "head">>, <<"ssh", "head", "convert">>}

ProcessInputs ==
    [Stages -> {[spawn EXCEPT !.killed = k] : k \in BOOLEAN}]

ForgetKillCalls(procs) == [s \in Stages |-> [procs[s] EXCEPT !.killInvoked = FALSE]]

\* the launch of ssh in captureScreenshot
CallSshLaunch ==
    /\ call.fn = "sshLaunch"
    /\ ret = <<>>
    /\ ret' = <<[command |-> sshCommand(call.password),
                 args |-> sshArgs(call.password, call.host),
                 env |-> sshEnv(call.password, call.env)]>>
    /\ UNCHANGED <<settings, requestVars, captureVars, eventVars, notices,
                   proc, pipelineCompleted, promise, pipeOutcome, call>>

\* the launch of head and convert in captureScreenshot
CallStageArgs ==
    /\ call.fn = "stageArgs"
    /\ ret = <<>>
    /\ ret' = <<[head |-> headArgs, convert |-> convertArgs(call.outputPath)]>>
    /\ UNCHANGED <<settings, requestVars, captureVars, eventVars, notices,
                   proc, pipelineCompleted, promise, pipeOutcome, call>>

\* this.cleanupProcesses(processes), and once more after it
CallCleanupProcesses ==
    /\ call.fn = "cleanupProcesses"
    /\ ret = <<>>
    /\ LET first == cleanupProcesses(call.list, call.procs, call.ko)
           second == cleanupProcesses(call.list, ForgetKillCalls(first), call.ko2)
       IN ret' = <<first, second>>
    /\ UNCHANGED <<settings, requestVars, captureVars, eventVars, notices,
                   proc, pipelineCompleted, promise, pipeOutcome, call>>

\* this.isValidIPAddress(ip)
CallIsValidIPAddress ==
    /\ call.fn = "isValidIPAddress"
    /\ ret = <<>>
    /\ ret' = <<isValidIPAddress(call.ip)>>
    /\ UNCHANGED <<settings, requestVars, captureVars, eventVars, notices,
                   proc, pipelineCompleted, promise, pipeOutcome, call>>

CallInit ==
    /\ settings = [sshHost |-> DefaultHost, imageFolder |-> DefaultFolder]
    /\ IdleRequest
    /\ ret = <<>>
    /\ \/ \E ip \in IpInputs : call = [fn |-> "isValidIPAddress", ip |-> ip]
       \/ \E password \in PasswordInputs, host \in {Trim(h) : h \in HostInputs},
             env \in ProcessEnvInputs :
               call = [fn |-> "sshLaunch", password |-> password, host |-> host,
                       env |-> env]
       \/ \E folder \in {DefaultFolder} \cup {Trim(f) : f \in FolderInputs} :
               call = [fn |-> "stageArgs", outputPath |-> folder]
       \/ \E list \in ProcessLists, procs \in ProcessInputs,
             ko \in KillChoices, ko2 \in KillChoices :
               call = [fn |-> "cleanupProcesses", list |-> list, procs |-> procs,
                       ko |-> ko, ko2 |-> ko2]

CallNext ==
    \/ CallIsValidIPAddress
    \/ CallSshLaunch
    \/ CallStageArgs
    \/ CallCleanupProcesses

CallSpec == CallInit /\ [][CallNext]_vars

Next ==
    \/ SetSshHost
    \/ SetImageFolder
    \/ handleScreenshotRequest
    \/ ProbeUnreachable
    \/ ProbeReachableNoLocalVault
    \/ CaptureMkdirFails
    \/ CaptureStart
    \/ SshError
    \/ HeadError
    \/ ConvertError
    \/ HeadClose
    \/ ConvertClose
    \/ Timeout
    \/ SshExit

Spec == Init /\ [][Next]_vars

\* the timer armed by setTimeout fires
FairSpec == Spec /\ WF_vars(Timeout)

TypeOK ==
    /\ phase \in {"idle", "probing", "finished", "capturing"}
    /\ probeResult \in {"none", "reachable", "unreachable"}
    /\ timer \in {"unarmed", "armed", "fired"}
    /\ pipelineCompleted \in BOOLEAN
    /\ promise.state \in {"pending", "fulfilled", "rejected"}
    /\ \A s \in Stages : proc[s].killed => proc[s].killInvoked

(***************************************************************************)
(* Properties                                                              *)
(***************************************************************************)
Settled == promise.state # "pending"

Spawned == {s \in Stages : proc[s].spawned}

\* C1: the result of one captureScreenshot invocation is settled at most
\* once; once it is settled no later stage event or late timeout changes
\* the settled state or value, runs the then/catch callback again or raises
\* another notice.
C1_SettledOnce ==
    [][/\ promise'.reactions <= 1
       /\ Settled => /\ promise'.state = promise.state
                     /\ promise'.value = promise.value
                     /\ promise'.reactions = promise.reactions
                     /\ notices' = notices]_vars

\* a structured error settled the result and afterwards the timer fired,
\* convert closed and another stage reported an error
C1_Witness ==
    /\ promise.value.kind = "sshError"
    /\ timer = "fired"
    /\ convertCode = 0
    /\ proc["head"].errors > 0

\* C2: every captureScreenshot invocation is eventually settled, provided
\* only that the armed timer fires; an invocation whose directory creation
\* failed is settled in the same step.
C2_EventuallySettled ==
    /\ (captureCalls > 0) ~> Settled
    /\ [](dirCheck = "failed" => Settled)

\* all three stages hang: no 'error', no 'close', and the timer settled it
C2_Witness ==
    /\ captureCalls > 0
    /\ promise.value.kind = "timeout"
    /\ ~headClosed
    /\ convertCode = NoCode
    /\ ~sshFailed
    /\ \A s \in Stages : proc[s].errors = 0

\* C3: whenever the result is settled, kill() had been invoked on every
\* spawned stage by the time resolve/reject was called.
C3_TeardownComplete ==
    Settled => Spawned \subseteq promise.killsAtSettle

\* the success path settled the result with all three stages spawned, and
\* one of them did not take the signal
C3_Witness ==
    /\ promise.value.kind = "path"
    /\ Spawned = Stages
    /\ ~proc["head"].killed

\* C4: when the ssh stage failed to establish the session, by an 'error'
\* event or by starting and exiting with a non-zero code, and neither head
\* nor convert failed to launch, the result the invocation is settled with
\* is the 'SSH connection failed' error.
C4_SshFailureIsConnectionError ==
    [][(/\ sshFailed \/ proc'["ssh"].errors > 0
        /\ proc'["head"].errors = 0
        /\ proc'["convert"].errors = 0
        /\ ~Settled
        /\ promise'.state # "pending")
          => promise'.value.kind = "sshError"]_vars

\* C5: when the timer fires while the result is not settled and convert has
\* not closed, the result is the timeout error and kill() has been invoked
\* on ssh, head and convert.
C5_TimeoutKillsAll ==
    [][(timer = "armed" /\ timer' = "fired" /\ ~Settled /\ ~pipelineCompleted)
          => /\ promise'.state = "rejected"
             /\ promise'.value = ErrorResult("timeout", NoCode)
             /\ \A s \in Stages : proc'[s].killInvoked]_vars

\* the timer settled the result after head had closed and killed ssh
C5_Witness ==
    /\ promise.value.kind = "timeout"
    /\ timer = "fired"
    /\ headClosed
    /\ proc["ssh"].killed
    /\ \A s \in Stages : proc[s].killInvoked

\* C6: the result becomes the success path only in the step in which convert
\* closes with code 0 while nothing had settled it, and the path names the
\* configured imageFolder; when convert closes with a non-zero code while
\* nothing had settled the result, the result is the transcoder error with
\* that code and kill() had been invoked on ssh and head before the reject.
C6_ConvertCloseDecides ==
    [][/\ (promise'.value.kind = "path" /\ promise.value.kind # "path")
            => /\ convertCode = NoCode
               /\ convertCode' = 0
               /\ ~Settled
               /\ promise'.value = PathResult(settings.imageFolder)
       /\ (convertCode = NoCode /\ convertCode' \notin {NoCode, 0} /\ ~Settled)
            => /\ promise'.state = "rejected"
               /\ promise'.value = ErrorResult("convertExit", convertCode')
               /\ {"ssh", "head"} \subseteq promise'.killsAtSettle]_vars

\* convert closed with code 1 before anything else settled the result
C6_Witness ==
    /\ promise.value = ErrorResult("convertExit", 1)
    /\ convertCode = 1
    /\ timer = "armed"
    /\ {"ssh", "head"} \subseteq promise.killsAtSettle

\* C7: no stage is spawned unless the address the request checked passed
\* isValidIPAddress and the probe found it reachable; a malformed address
\* gives the validation notice alone, with no probe, no capture and no
\* spawn; an unreachable device gives the unreachable notice alone, with no
\* capture and no spawn.
C7_PreflightGate ==
    /\ Spawned # {} => isValidIPAddress(checkedHost) /\ probeResult = "reachable"
    /\ (phase # "idle" /\ ~isValidIPAddress(checkedHost))
          => /\ notices = <<"invalidAddress">>
             /\ probeCalls = 0
             /\ captureCalls = 0
             /\ Spawned = {}
    /\ probeResult = "unreachable"
          => /\ notices = <<"unreachable">>
             /\ captureCalls = 0
             /\ Spawned = {}

\* the request was made with an address that has an octet above 255
C7_Witness ==
    /\ phase = "finished"
    /\ checkedHost = Trim(<<"1", "0", ".", "1", "1", ".", "9", "9", ".", "9", "9", "9", " ">>)
    /\ notices = <<"invalidAddress">>

\* C8: the address ssh connects to is the address this request validated
\* and probed reachable.
C8_ConnectsToCheckedHost ==
    proc["ssh"].spawned
       => /\ sshArgsHost = checkedHost
          /\ isValidIPAddress(sshArgsHost)
          /\ probeResult = "reachable"

\* C9: in every state after head emitted 'close', kill() has been invoked
\* on ssh.
C9_HeadCloseKillsSsh ==
    headClosed => proc["ssh"].killInvoked

\* head closed and the capture went on to succeed
C9_Witness ==
    /\ headClosed
    /\ promise.value.kind = "path"
    /\ proc["ssh"].killed

\* C10: when the directory is missing and mkdirSync fails, the result is the
\* 'Failed to create directory' error, no stage is spawned and the timer is
\* not armed; when the directory exists mkdirSync is not called.
C10_DirectoryFailure ==
    /\ dirCheck = "failed"
          => /\ promise.state = "rejected"
             /\ promise.value = ErrorResult("dirError", NoCode)
             /\ Spawned = {}
             /\ processes = <<>>
             /\ timer = "unarmed"
             /\ mkdirCalls = 1
    /\ dirCheck = "exists" => mkdirCalls = 0

\* mkdirSync threw and the request ended with the failure notice
C10_Witness ==
    /\ dirCheck = "failed"
    /\ promise.value.kind = "dirError"
    /\ notices = <<"capturing", "failed">>

\* C11: an 'error' event on any of the four pipe endpoints, with EPIPE or
\* any other code, leaves pipelineCompleted, the processes and the result as
\* they were and is never thrown as an uncaught exception: it is suppressed
\* or logged.
C11_PipeErrorsContained ==
    [][pipeOutcome' # pipeOutcome
          => /\ promise' = promise
             /\ pipelineCompleted' = pipelineCompleted
             /\ proc' = proc
             /\ processes' = processes
             /\ \A e \in PipeEndpoints :
                    pipeOutcome'[e] \in {"none", "suppressed", "logged"}]_vars

\* the value of a string of digits
RECURSIVE DecimalValue(_)
DecimalValue(s) ==
    IF s = <<>> THEN 0
    ELSE DecimalValue(SubSeq(s, 1, Len(s) - 1)) * 10 + DigitVal(s[Len(s)])

IsDecimalInteger(s) == s # <<>> /\ \A i \in 1..Len(s) : IsDigit(s[i])

\* exactly four dot-separated decimal integers, each in 0..255
FourIntegersInRange(s) ==
    LET parts == Split(s) IN
    /\ Len(parts) = 4
    /\ \A i \in 1..4 : IsDecimalInteger(parts[i]) /\ DecimalValue(parts[i]) <= 255

AtMostThreeDigitsEach(s) == \A i \in 1..Len(Split(s)) : Len(Split(s)[i]) <= 3

Returned(fn) == call.fn = fn /\ ret # <<>>

\* C12 as stated: isValidIPAddress(S) is true if and only if S consists of
\* exactly four dot-separated decimal integers each in the range 0..255.
C12_ValidIffFourIntegersInRange ==
    Returned("isValidIPAddress") => ret[1] = FourIntegersInRange(call.ip)

\* C12: isValidIPAddress(S) is true if and only if S consists of exactly
\* four dot-separated decimal integers, each written with one to three
\* digits and each in the range 0..255.
C12_ValidIffFourShortIntegersInRange ==
    Returned("isValidIPAddress")
       => ret[1] = (FourIntegersInRange(call.ip) /\ AtMostThreeDigitsEach(call.ip))

\* "999.1.1.1" was rejected
C12_Witness ==
    /\ Returned("isValidIPAddress")
    /\ call.ip = <<"9", "9", "9", ".", "1", ".", "1", ".", "1">>
    /\ ret = <<FALSE>>

\* C13: a request runs the probe command at most once, and exactly once
\* when the probe gave a verdict; a probe that reported an error gives the
\* verdict 'not reachable' with the unreachable notice, and the 'Failed to
\* check device reachability' notice is never raised.
C13_ProbeOnceNeverRejects ==
    /\ probeCalls <= 1
    /\ phase = "probing" => probeCalls = 1
    /\ probeResult # "none" => probeCalls = 1
    /\ probeResult = "unreachable" => notices = <<"unreachable">>
    /\ \A i \in 1..Len(notices) : notices[i] # "checkFailed"

\* the probe command reported an error
C13_Witness ==
    /\ probeResult = "unreachable"
    /\ probeCalls = 1
    /\ phase = "finished"
    /\ captureCalls = 0

FailureNotices ==
    {"invalidAddress", "unreachable", "localVaultOnly", "checkFailed", "failed"}

FailureCount == Cardinality({i \in 1..Len(notices) : notices[i] \in FailureNotices})

RequestFailed == phase = "finished" \/ promise.state = "rejected"

\* C15: a request never raises two failure notices, and a request that
\* failed has raised exactly one failure notice and no 'Screenshot
\* inserted' notice, whatever stage events and timer firings follow.
C15_OneFailureNotice ==
    /\ FailureCount <= 1
    /\ RequestFailed
          => /\ FailureCount = 1
             /\ \A i \in 1..Len(notices) : notices[i] # "inserted"

\* the capture failed on a head launch error, and afterwards ssh reported
\* an error, convert closed with code 0 and the timer fired
C15_Witness ==
    /\ promise.value.kind = "headError"
    /\ proc["ssh"].errors > 0
    /\ convertCode = 0
    /\ timer = "fired"
    /\ notices = <<"capturing", "failed">>

\* C16: once a stage 'error' handler or the timer has settled the result,
\* no later 'error' handler and no later timer expiry runs the teardown
\* again: no stage is signalled by such a step.
C16_FirstTerminalTransitionOnly ==
    [][(/\ promise.value.kind \in {"sshError", "headError", "convertError", "timeout"}
        /\ \/ timer' # timer
           \/ \E s \in Stages : proc'[s].errors # proc[s].errors)
          => \A s \in Stages : proc'[s].killed = proc[s].killed]_vars

\* C18: on success the folder of the resolved path is the imageFolder that
\* outputPath was built from when the invocation started.
C18_PathNamesOutputFolder ==
    promise.value.kind = "path" => promise.value.folder = outputFolder

\* C14: with a non-empty sshPassword ssh is launched as sshpass -e, the
\* password is the value of SSHPASS in the child's environment and is no
\* element of the argument list, which is the same for every password; with
\* an empty sshPassword it is launched as ssh with the process environment
\* as it is.
C14_PasswordOnlyInEnvironment ==
    Returned("sshLaunch") =>
       LET launch == ret[1]
           target == ArgRootAt \o call.host
       IN IF call.password # <<>>
          THEN /\ launch.command = "sshpass"
               /\ launch.args = <<ArgDashE, ArgSsh, target, ArgCatFb0>>
               /\ \A i \in 1..Len(launch.args) : launch.args[i] # call.password
               /\ launch.env["SSHPASS"] = call.password
               /\ \A name \in DOMAIN call.env \ {"SSHPASS"} :
                      launch.env[name] = call.env[name]
          ELSE /\ launch.command = "ssh"
               /\ launch.args = <<ArgSsh, target, ArgCatFb0>>
               /\ launch.env = call.env

\* ssh was launched with the password "pw" while the process environment
\* already had an SSHPASS of its own
C14_Witness ==
    /\ Returned("sshLaunch")
    /\ call.password = <<"p", "w">>
    /\ "SSHPASS" \in DOMAIN call.env
    /\ ret[1].command = "sshpass"
    /\ ret[1].env["SSHPASS"] = <<"p", "w">>

\* C17: cleanupProcesses invokes kill() on exactly the listed stages whose
\* killed flag is false, also on those that follow a stage whose kill()
\* threw, and leaves the others alone; a second teardown skips every stage
\* the first one signalled, so no stage is signalled twice.
C17_CleanupIdempotent ==
    Returned("cleanupProcesses") =>
       LET first == ret[1]
           second == ret[2]
           listed == {call.list[i] : i \in 1..Len(call.list)}
       IN /\ \A s \in listed :
                /\ first[s].killInvoked = ~call.procs[s].killed
                /\ first[s].killed = (call.procs[s].killed \/ call.ko[s] = "ok")
                /\ second[s].killInvoked = ~first[s].killed
                /\ ~(/\ first[s].killInvoked /\ call.ko[s] = "ok"
                     /\ second[s].killInvoked /\ call.ko2[s] = "ok")
          /\ \A s \in Stages \ listed :
                first[s] = call.procs[s] /\ second[s] = ForgetKillCalls(first)[s]

\* kill() of ssh threw, head was signalled all the same, and the second
\* teardown tried ssh again and skipped head
C17_Witness ==
    /\ Returned("cleanupProcesses")
    /\ call.list = <<"ssh", "head", "convert">>
    /\ \A s \in Stages : ~call.procs[s].killed
    /\ call.ko["ssh"] = "throw"
    /\ ret[1]["head"].killed
    /\ ret[2]["ssh"].killInvoked
    /\ ~ret[2]["head"].killInvoked

\* the pieces of a string between occurrences of the character sep
RECURSIVE SplitAt(_, _, _, _)
SplitAt(s, sep, cur, acc) ==
    IF s = <<>> THEN Append(acc, cur)
    ELSE IF Head(s) = sep THEN SplitAt(Tail(s), sep, <<>>, Append(acc, cur))
    ELSE SplitAt(Tail(s), sep, Append(cur, Head(s)), acc)

Pieces(s, sep) == SplitAt(s, sep, <<>>, <<>>)

\* C19: the byte count given to head is width x height x (depth / 8) of the
\* raster given to convert, 5271552 = 1408 * 1872 * (16 / 8), and the crop
\* region 1404x1872 at offset (0,0) lies inside that raster.
C19_LimitIsOneFrame ==
    Returned("stageArgs") =>
       LET limit == DecimalValue(ret[1].head[2])
           size == Pieces(ret[1].convert[2], "x")
           width == DecimalValue(size[1])
           height == DecimalValue(size[2])
           depth == DecimalValue(ret[1].convert[4])
           crop == Pieces(ret[1].convert[7], "+")
           cropSize == Pieces(crop[1], "x")
           cropWidth == DecimalValue(cropSize[1])
           cropHeight == DecimalValue(cropSize[2])
           cropX == DecimalValue(crop[2])
           cropY == DecimalValue(crop[3])
       IN /\ depth % 8 = 0
          /\ limit = width * height * (depth \div 8)
          /\ limit = 5271552
          /\ <<width, height, depth>> = <<1408, 1872, 16>>
          /\ <<cropWidth, cropHeight, cropX, cropY>> = <<1404, 1872, 0, 0>>
          /\ cropX + cropWidth <= width
          /\ cropY + cropHeight <= height

\* head and convert were given their arguments for a file in 'attachments'
C19_Witness ==
    /\ Returned("stageArgs")
    /\ call.outputPath = DefaultFolder
    /\ ret[1].head[1] = <<"-", "c">>
    /\ ret[1].convert[9] = DefaultFolder

====
